---- MODULE Spec2Model ----
(***************************************************************************)
(* A model of argopy's xarray accessor (src/argopy/xarray.py):             *)
(*   - ArgoAccessor.uid             the profile identifier encoder/decoder *)
(*   - ArgoAccessor.cast_types      the type normalizer                    *)
(*   - ArgoAccessor.filter_data_mode the data-mode reconciler              *)
(*   - ArgoAccessor.point2profile / profile2point   the reshaper           *)
(***************************************************************************)
EXTENDS Integers, Sequences, FiniteSets, Bags, TLC

VARIABLES
    uid_pc,     \* position of the caller of uid: "idle", "encoded", "decoded"
    uid_in,     \* the arguments (wmo, cyc, direction) of the last encoding call
    uid_code,   \* the identifier returned by the last encoding call
    uid_out,    \* the triple (wmo, cyc, drc) returned by the last decoding call
    obj,        \* the dataset the caller holds: the result of the last call
                \* that returned, else the dataset it was made on
    last,       \* the last call: its operation, the exception it raised or
                \* "none", and whether it returned the very object it was given
    before,     \* the dataset given to the last call, as it was at the call
    after,      \* the same dataset object, as it is after the call
    origin      \* the dataset that was given to the call before the last

uid_vars == <<uid_pc, uid_in, uid_code, uid_out>>
ds_vars == <<obj, last, before, after, origin>>

----------------------------------------------------------------------------
(* Bounds of the model *)

MaxPlatform == 2    \* small platform numbers 0..MaxPlatform are enumerated
MaxCycle == 2       \* small cycle numbers 0..MaxCycle are enumerated
MaxRecs == 3        \* the records of a point dataset given to the reshaper
MaxHistory == 3     \* the entries of the history log
MaxFilterRecs == 2  \* the records of a point dataset given to the filter
MaxCastRecs == 2    \* the records of a raw dataset given to cast_types
MaxProfiles == 2    \* the profiles and the levels of a raw profile dataset

----------------------------------------------------------------------------
(* Wide integers.  The identifiers are up to 10^5 * wmo + cyc, beyond the   *)
(* range of the checker's integers; numpy holds them exactly (float64 up    *)
(* to 2^53, then int64).  They are kept here as NLimbs limbs in base Base,  *)
(* least significant first, and the arithmetic is done limb by limb.        *)

Base == 10000
NLimbs == 4

Limbs == 1..NLimbs

BigZero == [i \in Limbs |-> 0]

\* n with its k lowest limbs dropped
RECURSIVE ShiftDown(_, _)
ShiftDown(n, k) == IF k = 0 THEN n ELSE ShiftDown(n \div Base, k - 1)

\* a machine integer (0 <= n < 2^31) as a wide integer
BigFromInt(n) == [i \in Limbs |-> ShiftDown(n, i - 1) % Base]

\* carry into limb i of a * k
RECURSIVE MulCarry(_, _, _)
MulCarry(a, k, i) ==
    IF i = 1 THEN 0 ELSE (a[i - 1] * k + MulCarry(a, k, i - 1)) \div Base

\* a * k for a small k (k <= 10^5)
BigMulSmall(a, k) == [i \in Limbs |-> (a[i] * k + MulCarry(a, k, i)) % Base]

RECURSIVE AddCarry(_, _, _)
AddCarry(a, b, i) ==
    IF i = 1 THEN 0 ELSE (a[i - 1] + b[i - 1] + AddCarry(a, b, i - 1)) \div Base

BigAdd(a, b) == [i \in Limbs |-> (a[i] + b[i] + AddCarry(a, b, i)) % Base]

RECURSIVE SubBorrow(_, _, _)
SubBorrow(a, b, i) ==
    IF i = 1 THEN 0
    ELSE IF a[i - 1] - b[i - 1] - SubBorrow(a, b, i - 1) < 0 THEN 1 ELSE 0

\* a - b for a >= b
BigSub(a, b) == [i \in Limbs |-> (a[i] - b[i] - SubBorrow(a, b, i)) % Base]

\* remainder left after dividing limbs NLimbs..i of a by k (long division)
RECURSIVE DivRem(_, _, _)
DivRem(a, k, i) ==
    IF i > NLimbs THEN 0 ELSE (DivRem(a, k, i + 1) * Base + a[i]) % k

\* floor(a / k) for a small k (k <= 10^5)
BigDivSmall(a, k) ==
    [i \in Limbs |-> (DivRem(a, k, i + 1) * Base + a[i]) \div k]

\* the machine integer of a wide integer that fits in two limbs
BigToInt(a) == a[1] + Base * a[2]

BigFits(a) == \A i \in Limbs : i > 2 => a[i] = 0

\* signed wide integers: sgn in {-1, 0, 1}, sgn = 0 exactly for mag = BigZero
SignedBig(s, m) == [sgn |-> IF m = BigZero THEN 0 ELSE s, mag |-> m]

----------------------------------------------------------------------------
(* ArgoAccessor.uid *)

offset == 100000

\* sklearn LabelEncoder fitted on ['A', 'D']: classes_ sorted, labels 0 and 1
le_classes == <<"A", "D">>

le_transform(x) == CHOOSE y \in 0..1 : le_classes[y + 1] = x

\* labels outside 0..1 raise ValueError; the decoder only passes 0 or 1
le_inverse_transform(y) == le_classes[y + 1]

encode_direction(x) ==
    LET y == 1 - le_transform(x)
    IN  IF y = 0 THEN -1 ELSE y

decode_direction(x) ==
    LET y == 1 - (IF x = -1 THEN 0 ELSE x)
    IN  le_inverse_transform(y)

\* a magnitude with the platform and the cycle taken for each other
uid_magnitude_swapped(wmo, cyc) ==
    BigAdd(BigMulSmall(BigFromInt(cyc), offset), BigFromInt(wmo))

\* np.vectorize(int)(offset * wmo_or_uid + cyc)
uid_magnitude(wmo, cyc) ==
    BigAdd(BigMulSmall(BigFromInt(wmo), offset), BigFromInt(cyc))

\* the encoder with a direction
uid_encode(wmo, cyc, direction) ==
    SignedBig(encode_direction(direction), uid_magnitude(wmo, cyc))

\* the encoder without a direction: the magnitude only
uid_encode_nodir(wmo, cyc) == SignedBig(1, uid_magnitude(wmo, cyc))

\* the decoder: np.sign, np.abs, int(abs / offset), -int(offset * wmo - abs)
uid_decode(u) ==
    LET drc == decode_direction(u.sgn)
        wmo == BigDivSmall(u.mag, offset)
        cyc == BigSub(u.mag, BigMulSmall(wmo, offset))
    IN  [wmo |-> wmo, cyc |-> cyc, drc |-> drc]

NoDirection == "None"

\* WMO numbers have five or seven digits
Platforms == (0..MaxPlatform) \cup {offset - 1, offset, 690024, 9999999}
Cycles == (0..MaxCycle) \cup {13, offset - 1}
Directions == {"A", "D"}

\* uid(wmo, cyc, direction)
Encode ==
    \E wmo \in Platforms, cyc \in Cycles, direction \in Directions :
        /\ uid_in' = <<wmo, cyc, direction>>
        /\ uid_code' = uid_encode(wmo, cyc, direction)
        /\ uid_pc' = "encoded"
        /\ UNCHANGED uid_out
        /\ UNCHANGED ds_vars

\* uid(wmo, cyc)
EncodeNoDirection ==
    \E wmo \in Platforms, cyc \in Cycles :
        /\ uid_in' = <<wmo, cyc, NoDirection>>
        /\ uid_code' = uid_encode_nodir(wmo, cyc)
        /\ uid_pc' = "encoded"
        /\ UNCHANGED uid_out
        /\ UNCHANGED ds_vars

\* uid(unique_float_profile_id)
Decode ==
    /\ uid_pc = "encoded"
    /\ uid_out' = uid_decode(uid_code)
    /\ uid_pc' = "decoded"
    /\ UNCHANGED <<uid_in, uid_code>>
    /\ UNCHANGED ds_vars

UidNext == Encode \/ EncodeNoDirection \/ Decode

----------------------------------------------------------------------------
(* Array elements.  An element is a tagged pair:                            *)
(*   <<"i", n>>  an integer          <<"f", n>>  a float64 of value n       *)
(*   <<"nan", 0>> float NaN          <<"s", cs>> a text of characters cs    *)
(*   <<"t", d>>  a datetime64, d = <<year, month, day, hour, min, sec>>     *)
(*   <<"nat", 0>> not-a-time         <<"undef", 0>> the integer a NaN is    *)
(*                                   cast to (not defined by numpy)         *)

NaN == <<"nan", 0>>
NaT == <<"nat", 0>>
Undef == <<"undef", 0>>
I(n) == <<"i", n>>
F(n) == <<"f", n>>
S(cs) == <<"s", cs>>
T(d) == <<"t", d>>

Tag(x) == x[1]
Payload(x) == x[2]

\* numpy.isnan on a float array
isnan(x) == Tag(x) = "nan"

\* element types (numpy dtype): kind and, for text, the number of characters
dtype_O == [kind |-> "O", n |-> 0]
dtype_i == [kind |-> "i", n |-> 0]
dtype_f == [kind |-> "f", n |-> 0]
dtype_M == [kind |-> "M", n |-> 0]
dtype_U(n) == [kind |-> "U", n |-> n]

Digits == <<"0", "1", "2", "3", "4", "5", "6", "7", "8", "9">>

IsDigit(c) == \E i \in 1..10 : Digits[i] = c

DigitVal(c) == (CHOOSE i \in 1..10 : Digits[i] = c) - 1

\* the decimal digits of n >= 0
RECURSIVE IntToChars(_)
IntToChars(n) ==
    IF n < 10 THEN <<Digits[n + 1]>>
    ELSE IntToChars(n \div 10) \o <<Digits[(n % 10) + 1]>>

\* the value of a sequence of digits
RECURSIVE CharsToInt(_)
CharsToInt(cs) ==
    IF cs = <<>> THEN 0
    ELSE 10 * CharsToInt(SubSeq(cs, 1, Len(cs) - 1)) + DigitVal(cs[Len(cs)])

AllDigits(cs) == \A k \in 1..Len(cs) : IsDigit(cs[k])

\* str.strip(): leading and trailing blanks removed
RECURSIVE LStrip(_)
LStrip(cs) ==
    IF cs # <<>> /\ cs[1] = " " THEN LStrip(Tail(cs)) ELSE cs

RECURSIVE RStrip(_)
RStrip(cs) ==
    IF cs # <<>> /\ cs[Len(cs)] = " "
    THEN RStrip(SubSeq(cs, 1, Len(cs) - 1)) ELSE cs

Strip(cs) == RStrip(LStrip(cs))

\* Python str() of an element, as numpy uses it to cast objects to text
py_str(x) ==
    CASE Tag(x) = "s" -> Payload(x)
      [] Tag(x) = "nan" -> <<"n", "a", "n">>
      [] Tag(x) = "i" ->
            IF Payload(x) < 0 THEN <<"-">> \o IntToChars(-Payload(x))
            ELSE IntToChars(Payload(x))
      [] Tag(x) = "f" ->
            (IF Payload(x) < 0 THEN <<"-">> \o IntToChars(-Payload(x))
             ELSE IntToChars(Payload(x))) \o <<".", "0">>
      [] OTHER -> <<"N", "a", "T">>

\* Python int() of an element; ok is FALSE where int() raises
py_int(x) ==
    CASE Tag(x) = "i" -> [ok |-> TRUE, val |-> x]
      [] Tag(x) = "f" -> [ok |-> TRUE, val |-> I(Payload(x))]
      [] Tag(x) = "nan" -> [ok |-> TRUE, val |-> Undef]
      [] Tag(x) = "undef" -> [ok |-> TRUE, val |-> Undef]
      [] Tag(x) = "s" ->
            LET cs == Strip(Payload(x))
                neg == cs # <<>> /\ cs[1] = "-"
                ds == IF cs # <<>> /\ cs[1] \in {"-", "+"} THEN Tail(cs) ELSE cs
            IN  IF ds # <<>> /\ AllDigits(ds)
                THEN [ok |-> TRUE,
                      val |-> I(IF neg THEN -CharsToInt(ds) ELSE CharsToInt(ds))]
                ELSE [ok |-> FALSE, val |-> x]
      [] OTHER -> [ok |-> FALSE, val |-> x]

\* the text cut (or kept) to at most n characters: astype('U<n>')
Truncate(cs, n) == IF Len(cs) > n THEN SubSeq(cs, 1, n) ELSE cs

MaxOf(S0) == IF S0 = {} THEN 1 ELSE CHOOSE m \in S0 : \A k \in S0 : k <= m

\* the text width numpy gives an array of texts (at least one character)
TextWidth(data) == MaxOf({Len(Payload(data[k])) : k \in DOMAIN data} \cup {1})

Blank14 == [k \in 1..14 |-> " "]

DaysInMonth(y, m) ==
    IF m \in {4, 6, 9, 11} THEN 30
    ELSE IF m = 2
         THEN (IF (y % 4 = 0 /\ y % 100 # 0) \/ y % 400 = 0 THEN 29 ELSE 28)
         ELSE 31

\* pandas.to_datetime(x, format='%Y%m%d%H%M%S') of one text: the empty text
\* and 'nan' give not-a-time, fourteen digits of a date give the date,
\* anything else raises ValueError (ok is FALSE)
to_datetime(cs) ==
    IF cs = <<>> \/ cs = <<"n", "a", "n">> THEN [ok |-> TRUE, val |-> NaT]
    ELSE IF Len(cs) = 14 /\ AllDigits(cs)
         THEN LET y == CharsToInt(SubSeq(cs, 1, 4))
                  m == CharsToInt(SubSeq(cs, 5, 6))
                  d == CharsToInt(SubSeq(cs, 7, 8))
                  hh == CharsToInt(SubSeq(cs, 9, 10))
                  mi == CharsToInt(SubSeq(cs, 11, 12))
                  ss == CharsToInt(SubSeq(cs, 13, 14))
              IN  IF /\ m \in 1..12
                     /\ d \in 1..DaysInMonth(y, m)
                     /\ hh < 24 /\ mi < 60 /\ ss < 62
                  THEN [ok |-> TRUE, val |-> T(<<y, m, d, hh, mi, ss>>)]
                  ELSE [ok |-> FALSE, val |-> NaT]
         ELSE [ok |-> FALSE, val |-> NaT]

----------------------------------------------------------------------------
(* Variables and datasets.                                                  *)
(* A variable is [dims, dtype, data, attrs]: dims the tuple of dimension    *)
(* names, data the elements in row-major order, attrs a function from       *)
(* attribute names ("casted", "conventions") to their values.               *)

NoAttrs == <<>>

SetAttr(attrs, k, val) ==
    [a \in (DOMAIN attrs) \cup {k} |-> IF a = k THEN val ELSE attrs[a]]

HasAttr(attrs, k) == k \in DOMAIN attrs

Var(dims, dtype, data, attrs) ==
    [dims |-> dims, dtype |-> dtype, data |-> data, attrs |-> attrs]

----------------------------------------------------------------------------
(* ArgoAccessor.cast_types *)

list_str ==
    {"PLATFORM_NUMBER", "DATA_MODE", "DIRECTION", "DATA_CENTRE", "DATA_TYPE",
     "FORMAT_VERSION", "HANDBOOK_VERSION", "PROJECT_NAME", "PI_NAME",
     "STATION_PARAMETERS", "DATA_CENTER", "DC_REFERENCE",
     "DATA_STATE_INDICATOR", "PLATFORM_TYPE", "FIRMWARE_VERSION",
     "POSITIONING_SYSTEM", "PROFILE_PRES_QC", "PROFILE_PSAL_QC",
     "PROFILE_TEMP_QC", "PARAMETER", "SCIENTIFIC_CALIB_EQUATION",
     "SCIENTIFIC_CALIB_COEFFICIENT", "SCIENTIFIC_CALIB_COMMENT",
     "HISTORY_INSTITUTION", "HISTORY_STEP", "HISTORY_SOFTWARE",
     "HISTORY_SOFTWARE_RELEASE", "HISTORY_REFERENCE", "HISTORY_ACTION",
     "HISTORY_PARAMETER", "VERTICAL_SAMPLING_SCHEME", "FLOAT_SERIAL_NO"}

list_int ==
    {"PLATFORM_NUMBER", "WMO_INST_TYPE", "CYCLE_NUMBER",
     "CONFIG_MISSION_NUMBER"}

list_datetime ==
    {"REFERENCE_DATE_TIME", "DATE_CREATION", "DATE_UPDATE", "JULD",
     "JULD_LOCATION", "SCIENTIFIC_CALIB_DATE", "HISTORY_DATE"}

\* the physical quantities and the names of their variants
possible_list == <<"PRES", "TEMP", "PSAL", "DOXY">>

Variant(q, suffix) ==
    CASE q = "PRES" ->
            [plain |-> "PRES", qc |-> "PRES_QC", adj |-> "PRES_ADJUSTED",
             adj_qc |-> "PRES_ADJUSTED_QC", adj_err |-> "PRES_ADJUSTED_ERROR",
             err |-> "PRES_ERROR"][suffix]
      [] q = "TEMP" ->
            [plain |-> "TEMP", qc |-> "TEMP_QC", adj |-> "TEMP_ADJUSTED",
             adj_qc |-> "TEMP_ADJUSTED_QC", adj_err |-> "TEMP_ADJUSTED_ERROR",
             err |-> "TEMP_ERROR"][suffix]
      [] q = "PSAL" ->
            [plain |-> "PSAL", qc |-> "PSAL_QC", adj |-> "PSAL_ADJUSTED",
             adj_qc |-> "PSAL_ADJUSTED_QC", adj_err |-> "PSAL_ADJUSTED_ERROR",
             err |-> "PSAL_ERROR"][suffix]
      [] q = "DOXY" ->
            [plain |-> "DOXY", qc |-> "DOXY_QC", adj |-> "DOXY_ADJUSTED",
             adj_qc |-> "DOXY_ADJUSTED_QC", adj_err |-> "DOXY_ADJUSTED_ERROR",
             err |-> "DOXY_ERROR"][suffix]

Quantities == {possible_list[k] : k \in DOMAIN possible_list}

\* the names of the model's variables that contain "QC", "PROFILE", "ADJUSTED"
names_with_QC ==
    {Variant(q, "qc") : q \in Quantities}
        \cup {Variant(q, "adj_qc") : q \in Quantities}
        \cup {"PROFILE_PRES_QC", "PROFILE_PSAL_QC", "PROFILE_TEMP_QC", "JULD_QC",
              "POSITION_QC"}

names_with_PROFILE == {"PROFILE_PRES_QC", "PROFILE_PSAL_QC", "PROFILE_TEMP_QC"}

names_with_ADJUSTED ==
    {Variant(q, x) : q \in Quantities, x \in {"adj", "adj_qc", "adj_err"}}

\* "QC" in v and "PROFILE" not in v
is_qc_name(v) == v \in names_with_QC /\ v \notin names_with_PROFILE

\* da.values.astype(type): ok is FALSE where numpy raises
astype(da, type) ==
    CASE type = "str" ->
            LET data == [k \in DOMAIN da.data |-> S(py_str(da.data[k]))]
            IN  [ok |-> TRUE, data |-> data, dtype |-> dtype_U(TextWidth(data))]
      [] type = "int" ->
            LET r == [k \in DOMAIN da.data |-> py_int(da.data[k])]
            IN  IF \A k \in DOMAIN r : r[k].ok
                THEN [ok |-> TRUE, data |-> [k \in DOMAIN r |-> r[k].val],
                      dtype |-> dtype_i]
                ELSE [ok |-> FALSE, data |-> da.data, dtype |-> da.dtype]
      [] type = "datetime64" ->
            IF da.dtype.kind = "M" \/ da.data = <<>>
            THEN [ok |-> TRUE, data |-> da.data, dtype |-> dtype_M]
            ELSE [ok |-> FALSE, data |-> da.data, dtype |-> da.dtype]
      [] type = "U1" ->
            [ok |-> TRUE,
             data |-> [k \in DOMAIN da.data |->
                          S(Truncate(Payload(da.data[k]), 1))],
             dtype |-> dtype_U(1)]

\* the try and the except of cast_this, r being what astype gave
cast_this_result(da, r) ==
    IF r.ok
    THEN [da EXCEPT !.data = r.data, !.dtype = r.dtype,
                    !.attrs = SetAttr(da.attrs, "casted", TRUE)]
    ELSE da

\* cast_this: the cast, or the variable as it was when the cast raises
cast_this(da, type) == cast_this_result(da, astype(da, type))

\* ds[v].astype(str).values.astype('U14') with blank texts replaced by 'nan',
\* then pandas.to_datetime of every element
parse_packed_dates(da) ==
    LET val == [k \in DOMAIN da.data |->
                   LET cs == Truncate(py_str(da.data[k]), 14)
                   IN  IF cs = Blank14 THEN <<"n", "a", "n">> ELSE cs]
    IN  [k \in DOMAIN val |-> to_datetime(val[k])]

\* pandas.to_datetime(s.values, format=...) of the texts as they are
parse_dates(da) == [k \in DOMAIN da.data |-> to_datetime(Payload(da.data[k]))]

\* xr.where(ds[v] == old, '0', ds[v]): a new array, without attributes
where_replace(da, old) ==
    [da EXCEPT !.data = [k \in DOMAIN da.data |->
                            IF da.data[k] = S(old) THEN S(<<"0">>)
                            ELSE da.data[k]],
               !.attrs = NoAttrs]

\* lines 93-94
cast_str_step(v, da) ==
    IF v \in list_str /\ da.dtype.kind = "O" THEN cast_this(da, "str") ELSE da

\* lines 96-97
cast_int_step(v, da) ==
    IF v \in list_int THEN cast_this(da, "int") ELSE da

\* the variable given the dates r that pandas.to_datetime parsed, then cast
\* to datetime64; an unparseable text raises ValueError
cast_parsed_dates(da, r) ==
    IF \A k \in DOMAIN r : r[k].ok
    THEN [err |-> "none",
          da |-> cast_this([da EXCEPT !.data = [k \in DOMAIN r |-> r[k].val],
                                      !.dtype = dtype_M],
                           "datetime64")]
    ELSE [err |-> "ValueError", da |-> da]

\* lines 118-121, da1 being the variable cast to str
cast_calib_dates(da1) == cast_parsed_dates(da1, parse_dates(da1))

\* lines 99-121: err is the exception that leaves cast_types, or "none"
cast_datetime_step(v, da) ==
    IF ~(v \in list_datetime /\ da.dtype.kind = "O")
    THEN [err |-> "none", da |-> da]
    ELSE IF HasAttr(da.attrs, "conventions")
            /\ da.attrs["conventions"] = "YYYYMMDDHHMISS"
    THEN IF da.data # <<>>
         THEN IF Len(da.dims) = 2
              THEN \* pandas.to_datetime refuses a two-dimensional array
                   [err |-> "TypeError", da |-> da]
              ELSE cast_parsed_dates(da, parse_packed_dates(da))
         ELSE [err |-> "none", da |-> cast_this(da, "datetime64")]
    ELSE IF v = "SCIENTIFIC_CALIB_DATE"
    THEN cast_calib_dates(cast_this(da, "str"))
    ELSE [err |-> "none", da |-> da]

\* lines 125-127: a quality flag of objects is cast to str
cast_qc_object(da) ==
    IF da.dtype.kind = "O" THEN cast_this(da, "str") ELSE da

\* lines 130-135: a quality flag of texts of 3 characters
cast_qc_U3(da) ==
    IF da.dtype = dtype_U(3)
    THEN cast_this(where_replace(where_replace(da, <<" ", " ", " ">>),
                                 <<"n", "a", "n">>),
                   "U1")
    ELSE da

\* lines 138-144: a quality flag of texts of 1 character
cast_qc_U1(da) ==
    IF da.dtype = dtype_U(1)
    THEN where_replace(where_replace(da, <<" ">>), <<"n">>)
    ELSE da

\* the flag cleanup with the one-character texts cleaned before the
\* three-character texts are cut to one character
cast_qc_step_swapped(v, da) ==
    IF ~is_qc_name(v) THEN da
    ELSE cast_this(cast_qc_U3(cast_qc_U1(cast_qc_object(da))), "int")

\* lines 123-147
cast_qc_step(v, da) ==
    IF ~is_qc_name(v) THEN da
    ELSE cast_this(cast_qc_U1(cast_qc_U3(cast_qc_object(da))), "int")

\* lines 149-150
cast_flag_step(da) ==
    IF da.dtype.kind # "O"
    THEN [da EXCEPT !.attrs = SetAttr(da.attrs, "casted", TRUE)]
    ELSE da

\* line 92: the flag is lowered
cast_flag_reset(da) == [da EXCEPT !.attrs = SetAttr(da.attrs, "casted", FALSE)]

\* lines 123-150, r being what the lines 99-121 gave
cast_variable_end(v, r) ==
    IF r.err # "none" THEN r
    ELSE [err |-> "none", da |-> cast_flag_step(cast_qc_step(v, r.da))]

\* the body of the loop of cast_types for the variable v
cast_variable(v, da) ==
    cast_variable_end(v,
        cast_datetime_step(v,
            cast_int_step(v, cast_str_step(v, cast_flag_reset(da)))))

\* the loop of cast_types from the k-th data variable on; the dataset is
\* changed in place, so an exception leaves the variables cast so far
RECURSIVE cast_loop(_, _)

\* the dataset with its variable v as the body of the loop left it, r being
\* what the body gave: the loop ends on an exception, else it goes on
cast_loop_next(ds, k, v, r) ==
    IF r.err # "none" THEN [err |-> r.err, ds |-> [ds EXCEPT !.vars[v] = r.da]]
    ELSE cast_loop([ds EXCEPT !.vars[v] = r.da], k + 1)

cast_loop(ds, k) ==
    IF k > Len(ds.names) THEN [err |-> "none", ds |-> ds]
    ELSE cast_loop_next(ds, k, ds.names[k],
                        cast_variable(ds.names[k], ds.vars[ds.names[k]]))

\* cast_types: err, and ds the dataset self._obj after the call, which is
\* also the value returned when err is "none"
cast_types(ds) == cast_loop(ds, 1)

----------------------------------------------------------------------------
(* Datasets.                                                                *)
(* A dataset is a record:                                                   *)
(*   type      the structural mode kept by its accessor (_type)             *)
(*   dims      the length of every dimension                                *)
(*   index     the labels of the index coordinate (point form)              *)
(*   vars      the variables, data variables and coordinates, by name       *)
(*   names     the names of the data variables, in the mapping's order      *)
(*   coords    the names of the coordinates other than the dimensions'      *)
(*   history   the entries of the global attribute 'history'                *)
(*   encoding  the low-level encoding information                           *)

\* ArgoAccessor.__init__: the mode, or the structural error
accessor_type(dims) ==
    IF "N_PROF" \in DOMAIN dims THEN "profile"
    ELSE IF "index" \in DOMAIN dims THEN "point"
    ELSE "InvalidDatasetStructure"

\* _add_history
add_history(history, txt) == Append(history, txt)

\* the fixed order of names that np.sort gives
NameOrder ==
    <<"CYCLE_NUMBER", "DATA_MODE", "DATA_TYPE", "DIRECTION",
      "DOXY", "DOXY_ADJUSTED", "DOXY_ADJUSTED_ERROR", "DOXY_ADJUSTED_QC",
      "DOXY_ERROR", "DOXY_QC", "HISTORY_DATE",
      "JULD", "JULD_QC", "PLATFORM_NUMBER", "POSITION_QC",
      "PRES", "PRES_ADJUSTED", "PRES_ADJUSTED_ERROR", "PRES_ADJUSTED_QC",
      "PRES_ERROR", "PRES_QC", "PROFILE_PRES_QC",
      "PSAL", "PSAL_ADJUSTED", "PSAL_ADJUSTED_ERROR", "PSAL_ADJUSTED_QC",
      "PSAL_ERROR", "PSAL_QC", "SCIENTIFIC_CALIB_DATE",
      "STATION_PARAMETERS",
      "TEMP", "TEMP_ADJUSTED", "TEMP_ADJUSTED_ERROR", "TEMP_ADJUSTED_QC",
      "TEMP_ERROR", "TEMP_QC", "TIME">>

NamePos(v) == CHOOSE k \in DOMAIN NameOrder : NameOrder[k] = v

\* the elements of a finite set of integers, ascending
RECURSIVE SortedSeq(_)
SortedSeq(S0) ==
    IF S0 = {} THEN <<>>
    ELSE LET m == CHOOSE x \in S0 : \A y \in S0 : x <= y
         IN  <<m>> \o SortedSeq(S0 \ {m})

\* np.sort of a set of names
sort_names(S0) ==
    LET ps == SortedSeq({NamePos(v) : v \in S0})
    IN  [k \in DOMAIN ps |-> NameOrder[ps[k]]]

SeqToSet(sq) == {sq[k] : k \in DOMAIN sq}

\* the sub-sequence of sq at the positions ps
Select(sq, ps) == [k \in DOMAIN ps |-> sq[ps[k]]]

\* the order of two dates
RECURSIVE TupleLess(_, _)
TupleLess(a, b) ==
    IF a = <<>> THEN FALSE
    ELSE IF a[1] # b[1] THEN a[1] < b[1]
    ELSE TupleLess(Tail(a), Tail(b))

\* the order numpy sorts the elements of an array in: numbers by value,
\* dates by time, NaN and not-a-time last
ElemLess(a, b) ==
    CASE Tag(a) \in {"nan", "nat"} -> FALSE
      [] Tag(b) \in {"nan", "nat"} -> TRUE
      [] Tag(a) = "t" -> TupleLess(Payload(a), Payload(b))
      [] OTHER -> Payload(a) < Payload(b)

\* the positions 1..Len(keys) in the order of a stable sort by keys
stable_order(keys) ==
    LET n == Len(keys)
        rank(k) == 1 + Cardinality({j \in 1..n :
                        \/ ElemLess(keys[j], keys[k])
                        \/ (~ElemLess(keys[k], keys[j]) /\ j < k)})
    IN  [r \in 1..n |-> CHOOSE k \in 1..n : rank(k) = r]

\* the order of two wide integers, and of two signed ones
BigLess(a, b) ==
    \E i \in Limbs : a[i] < b[i] /\ \A j \in Limbs : j > i => a[j] = b[j]

SignedLess(a, b) ==
    IF a.sgn # b.sgn THEN a.sgn < b.sgn
    ELSE IF a.sgn = 1 THEN BigLess(a.mag, b.mag)
    ELSE IF a.sgn = -1 THEN BigLess(b.mag, a.mag)
    ELSE FALSE

----------------------------------------------------------------------------
(* ArgoAccessor.point2profile *)

\* a fill policy that pads the numbers with zero
fillvalue_zero(dtype) ==
    IF dtype.kind = "U" THEN S(<<" ">>)
    ELSE IF dtype.kind = "i" THEN I(0)
    ELSE IF dtype.kind = "M" THEN NaT
    ELSE F(0)

\* the fill value of an array of the given element type
fillvalue(dtype) ==
    IF dtype.kind = "U" THEN S(<<" ">>)
    ELSE IF dtype.kind = "i" THEN I(99999)
    ELSE IF dtype.kind = "M" THEN NaT
    ELSE NaN

\* the elements of sq that are in S0, in the order of sq
RECURSIVE FilterSeq(_, _)
FilterSeq(sq, S0) ==
    IF sq = <<>> THEN <<>>
    ELSE (IF sq[1] \in S0 THEN <<sq[1]>> ELSE <<>>) \o FilterSeq(Tail(sq), S0)

RECURSIVE SumSeq(_)
SumSeq(sq) == IF sq = <<>> THEN 0 ELSE sq[1] + SumSeq(Tail(sq))

\* what evaluating self.uid(PLATFORM_NUMBER, CYCLE_NUMBER, DIRECTION) raises
uid_error(this) ==
    IF ~({"PLATFORM_NUMBER", "CYCLE_NUMBER", "DIRECTION"} \subseteq DOMAIN this.vars)
    THEN "KeyError"
    ELSE LET wmo == this.vars["PLATFORM_NUMBER"].data
             cyc == this.vars["CYCLE_NUMBER"].data
             drc == this.vars["DIRECTION"].data
         IN  IF \E k \in DOMAIN drc :
                    ~(Tag(drc[k]) = "s" /\ Payload(drc[k]) \in {<<"A">>, <<"D">>})
             THEN "ValueError"
             ELSE IF \E k \in DOMAIN wmo :
                        Tag(wmo[k]) \notin {"i", "f"} \/ Tag(cyc[k]) \notin {"i", "f"}
             THEN "TypeError"
             ELSE IF wmo = <<>> THEN "ValueError"
             ELSE "none"

\* dummy_argo_uid: the identifier of every record
dummy_argo_uid(this) ==
    [k \in DOMAIN this.index |->
        uid_encode(Payload(this.vars["PLATFORM_NUMBER"].data[k]),
                   Payload(this.vars["CYCLE_NUMBER"].data[k]),
                   Payload(this.vars["DIRECTION"].data[k])[1])]

\* the groups of this.groupby(dummy_argo_uid): the i-th group is the one of
\* the i-th smallest identifier, its records in their order of arrival
group_uid(uids, i) ==
    CHOOSE u \in SeqToSet(uids) :
        Cardinality({w \in SeqToSet(uids) : SignedLess(w, u)}) = i - 1

group_members(uids, i) ==
    SortedSeq({k \in DOMAIN uids : uids[k] = group_uid(uids, i)})

\* np.unique: NaN counted once
np_unique(x) == SeqToSet(x)

\* the variables of this.data_vars after reset_coords, in order
this_data_vars(this) == this.names \o sort_names(this.coords)

\* N_PROF: the number of identifiers
count_profiles(uids) == Cardinality(np_unique(uids))

\* a width that takes every record for a level of every profile
count_levels_all(uids) == Len(uids)

\* N_LEVELS: the largest sum of ones over a group
count_levels(uids) ==
    MaxOf({Len(group_members(uids, i)) : i \in 1..count_profiles(uids)})

\* the dataset made of the groups, before the final formatting
build_profiles(this) ==
    LET uids == dummy_argo_uid(this)
        N_PROF == count_profiles(uids)
        members == [i \in 1..N_PROF |-> group_members(uids, i)]
        N_LEVELS == count_levels(uids)
        data_vars == this_data_vars(this)
        prof(i, vname) == Select(this.vars[vname].data, members[i])
        count(vname) ==
            [i \in 1..N_PROF |-> Cardinality(np_unique(prof(i, vname)))]
        list_1d == {vname \in SeqToSet(data_vars) : SumSeq(count(vname)) = N_PROF}
        list_2d == {vname \in SeqToSet(data_vars) : SumSeq(count(vname)) # N_PROF}
        array_2d(vname) ==
            [c \in 1..(N_PROF * N_LEVELS) |->
                LET i == ((c - 1) \div N_LEVELS) + 1
                    j == ((c - 1) % N_LEVELS) + 1
                    x == prof(i, vname)
                IN  IF j <= Len(x) THEN x[j]
                    ELSE fillvalue(this.vars[vname].dtype)]
        array_1d(vname) ==
            [i \in 1..N_PROF |-> CHOOSE y \in np_unique(prof(i, vname)) : TRUE]
        new_vars ==
            [vname \in SeqToSet(data_vars) |->
                IF vname \in list_2d
                THEN Var(<<"N_PROF", "N_LEVELS">>, this.vars[vname].dtype,
                         array_2d(vname), NoAttrs)
                ELSE Var(<<"N_PROF">>, this.vars[vname].dtype,
                         array_1d(vname), NoAttrs)]
    IN  [type |-> "profile",
         dims |-> [d \in {"N_PROF"} \cup (IF list_2d = {} THEN {} ELSE {"N_LEVELS"})
                     |-> IF d = "N_PROF" THEN N_PROF ELSE N_LEVELS],
         index |-> <<>>,
         vars |-> new_vars,
         names |-> FilterSeq(data_vars, list_2d \ this.coords)
                       \o FilterSeq(data_vars, list_1d \ this.coords),
         coords |-> this.coords,
         history |-> <<>>,
         encoding |-> "none"]

\* the rows of a variable along N_PROF taken in the given order
take_profiles(da, order, N_LEVELS) ==
    IF da.dims = <<"N_PROF">> THEN [da EXCEPT !.data = Select(da.data, order)]
    ELSE IF da.dims = <<"N_PROF", "N_LEVELS">>
    THEN [da EXCEPT !.data =
            [c \in 1..(Len(order) * N_LEVELS) |->
                da.data[(order[((c - 1) \div N_LEVELS) + 1] - 1) * N_LEVELS
                        + ((c - 1) % N_LEVELS) + 1]]]
    ELSE da

\* ds.sortby('TIME') of a profile dataset
sortby_time_profiles(ds) ==
    LET order == stable_order(ds.vars["TIME"].data)
        nl == IF "N_LEVELS" \in DOMAIN ds.dims THEN ds.dims["N_LEVELS"] ELSE 1
    IN  [ds EXCEPT !.vars = [v \in DOMAIN ds.vars |->
                                take_profiles(ds.vars[v], order, nl)]]

\* new_ds[np.sort(new_ds.data_vars)]
sort_data_vars(ds) == [ds EXCEPT !.names = sort_names(SeqToSet(ds.names))]

\* a guard that lets every dataset through
mode_not_checked(self, mode) == FALSE

\* the guard of the reshaping methods: the dataset is not in the mode wanted
wrong_mode(self, mode) == self.type # mode

\* lines 424-430, r being what cast_types gave
point2profile_end(self, r) ==
    IF r.err # "none" THEN [err |-> r.err, ds |-> self]
    ELSE [err |-> "none",
          ds |-> [sort_data_vars(r.ds) EXCEPT
                    !.encoding = self.encoding,
                    !.history = add_history(self.history,
                                            "Transformed with point2profile"),
                    !.type = "profile"]]

\* lines 423-430, new_ds being the dataset made of the groups
point2profile_format(self, new_ds) ==
    IF "TIME" \notin DOMAIN new_ds.vars
    THEN [err |-> "KeyError", ds |-> self]
    ELSE IF new_ds.vars["TIME"].dims # <<"N_PROF">>
    THEN \* sortby wants a one-dimensional array
         [err |-> "ValueError", ds |-> self]
    ELSE point2profile_end(self, cast_types(sortby_time_profiles(new_ds)))

\* point2profile: err the exception raised or "none", ds the dataset returned
point2profile(self) ==
    IF wrong_mode(self, "point")
    THEN [err |-> "InvalidDatasetStructure", ds |-> self]
    ELSE IF uid_error(self) # "none" THEN [err |-> uid_error(self), ds |-> self]
    ELSE IF count_profiles(dummy_argo_uid(self)) * count_levels(dummy_argo_uid(self))
                < Len(self.index)
    THEN [err |-> "AssertionError", ds |-> self]
    ELSE point2profile_format(self, build_profiles(self))

----------------------------------------------------------------------------
(* ArgoAccessor.profile2point *)

\* the dimensions of length zero found by the first loop: for every data
\* variable, the first of its dimensions that has length zero
zero_dim_list(ds) ==
    {d \in DOMAIN ds.dims :
        \E k \in DOMAIN ds.names :
            LET dims == ds.vars[ds.names[k]].dims
            IN  \E p \in DOMAIN dims :
                    /\ dims[p] = d
                    /\ ds.dims[d] = 0
                    /\ \A q \in 1..(p - 1) : ds.dims[dims[q]] # 0}

\* the dataset restricted to the variables in keep
keep_vars(ds, keep) ==
    [ds EXCEPT !.vars = [v \in keep |-> ds.vars[v]],
               !.names = FilterSeq(ds.names, keep),
               !.coords = ds.coords \cap keep]

\* ds.drop_dims(dim_list)
drop_dims(ds, dim_list) ==
    LET keep == {v \in DOMAIN ds.vars : SeqToSet(ds.vars[v].dims) \cap dim_list = {}}
    IN  [keep_vars(ds, keep) EXCEPT
            !.dims = [d \in (DOMAIN ds.dims) \ dim_list |-> ds.dims[d]]]

\* a second loop that also lets the variables without dimension through
drop_other_shapes_or_scalar(ds) ==
    keep_vars(ds, {v \in DOMAIN ds.vars :
                      \/ v \in ds.coords
                      \/ ds.vars[v].dims \in {<<>>, <<"N_PROF">>,
                                              <<"N_PROF", "N_LEVELS">>}})

\* the second loop: the data variables that are neither (N_PROF,) nor
\* (N_PROF, N_LEVELS) are dropped; the coordinates are not looked at
drop_other_shapes(ds) ==
    keep_vars(ds, {v \in DOMAIN ds.vars :
                      \/ v \in ds.coords
                      \/ ds.vars[v].dims \in {<<"N_PROF">>, <<"N_PROF", "N_LEVELS">>}})

\* the orders in which stack can lay out the cells: list(ds.dims) is
\* (N_LEVELS, N_PROF) where xarray sorts the dimensions by name, and
\* (N_PROF, N_LEVELS) where it keeps them as created
StackOrders == {"N_LEVELS", "N_PROF"}

\* the profile and the level of the c-th cell of the stacked index
cell_prof(c, np, nl, major) ==
    IF major = "N_PROF" THEN ((c - 1) \div nl) + 1 ELSE ((c - 1) % np) + 1

cell_level(c, np, nl, major) ==
    IF major = "N_PROF" THEN ((c - 1) % nl) + 1 ELSE ((c - 1) \div np) + 1

\* a variable broadcast over (N_PROF, N_LEVELS) and stacked along index
stack_variable(da, np, nl, major) ==
    [da EXCEPT
        !.dims = <<"index">>,
        !.data = [c \in 1..(np * nl) |->
                    IF da.dims = <<>> THEN da.data[1]
                    ELSE IF da.dims = <<"N_PROF">>
                    THEN da.data[cell_prof(c, np, nl, major)]
                    ELSE da.data[(cell_prof(c, np, nl, major) - 1) * nl
                                 + cell_level(c, np, nl, major)]]]

possible_coords == {"LATITUDE", "LONGITUDE", "TIME", "JULD"}

\* the element type and the elements of a data variable after Dataset.where:
\* integers become floats and texts become objects, to hold the missing value
where_promote(da) ==
    IF da.dtype.kind = "i"
    THEN [da EXCEPT !.dtype = dtype_f,
                    !.data = [k \in DOMAIN da.data |->
                                 IF Tag(da.data[k]) = "i"
                                 THEN F(Payload(da.data[k])) ELSE da.data[k]]]
    ELSE IF da.dtype.kind = "U" THEN [da EXCEPT !.dtype = dtype_O]
    ELSE da

\* ds.where(cond, drop=True) for a condition along index that holds at the
\* positions keep: the records kept, the data variables promoted
where_drop(ds, keep) ==
    [ds EXCEPT
        !.index = Select(ds.index, keep),
        !.dims = [d \in DOMAIN ds.dims |->
                     IF d = "index" THEN Len(keep) ELSE ds.dims[d]],
        !.vars = [v \in DOMAIN ds.vars |->
                     LET da == [ds.vars[v] EXCEPT !.data = Select(ds.vars[v].data, keep)]
                     IN  IF v \in ds.coords THEN da ELSE where_promote(da)]]

\* ds.sortby('TIME') of a point dataset
sortby_time_points(ds) ==
    LET order == stable_order(ds.vars["TIME"].data)
    IN  [ds EXCEPT !.index = Select(ds.index, order),
                   !.vars = [v \in DOMAIN ds.vars |->
                                [ds.vars[v] EXCEPT
                                    !.data = Select(ds.vars[v].data, order)]]]

\* a condition that holds at every position
every_position(ds) == [k \in DOMAIN ds.index |-> k]

\* the positions where ~np.isnan(ds['PRES']) holds, in order
pres_defined(ds) ==
    SortedSeq({k \in DOMAIN ds.index : ~isnan(ds.vars["PRES"].data[k])})

\* the stacked dataset of lines 456-462
stack_profiles(ds, major) ==
    LET np == ds.dims["N_PROF"]
        nl == ds.dims["N_LEVELS"]
        new_coords == ds.coords \cup (possible_coords \cap SeqToSet(ds.names))
    IN  [ds EXCEPT
            !.dims = [d \in {"index"} |-> np * nl],
            !.index = [c \in 1..(np * nl) |-> c - 1],
            !.vars = [v \in DOMAIN ds.vars |->
                         stack_variable(ds.vars[v], np, nl, major)],
            !.coords = new_coords,
            !.names = FilterSeq(ds.names, SeqToSet(ds.names) \ new_coords)]

\* lines 466-472, r being what cast_types gave
profile2point_end(self, r) ==
    IF r.err # "none" THEN [err |-> r.err, ds |-> self]
    ELSE [err |-> "none",
          ds |-> [sort_data_vars(r.ds) EXCEPT
                    !.encoding = self.encoding,
                    !.history = add_history(self.history,
                                            "Transformed with profile2point"),
                    !.type = "point"]]

\* lines 464-472, ds2 being the stacked dataset
profile2point_filter(self, ds2) ==
    IF "PRES" \notin DOMAIN ds2.vars
    THEN [err |-> "KeyError", ds |-> self]
    ELSE IF ds2.vars["PRES"].dtype.kind \in {"O", "U"}
    THEN \* np.isnan is not defined on these
         [err |-> "TypeError", ds |-> self]
    ELSE IF "TIME" \notin DOMAIN ds2.vars
    THEN [err |-> "KeyError", ds |-> self]
    ELSE profile2point_end(self,
             cast_types(sortby_time_points(where_drop(ds2, pres_defined(ds2)))))

\* lines 456-472, ds1 being the dataset of the variables kept; major is the
\* dimension that stack makes the outer one
profile2point_stack(self, ds1, major) ==
    IF ~({"N_PROF", "N_LEVELS"} \subseteq DOMAIN ds1.dims)
    THEN \* drop(['N_PROF', 'N_LEVELS']) does not find them
         [err |-> "ValueError", ds |-> self]
    ELSE profile2point_filter(self, stack_profiles(ds1, major))

\* profile2point: err the exception raised or "none", ds the dataset
\* returned
profile2point(self, major) ==
    IF wrong_mode(self, "profile")
    THEN [err |-> "InvalidDatasetStructure", ds |-> self]
    ELSE profile2point_stack(self,
             drop_other_shapes(drop_dims(self, zero_dim_list(self))), major)

----------------------------------------------------------------------------
(* ArgoAccessor.filter_data_mode *)

\* plist: the quantities that are data variables of the dataset
plist(ds) == FilterSeq(possible_list, SeqToSet(ds.names))

\* the names v.upper() + suffix for v in plist and the suffixes given
plist_variants(ds, suffixes) ==
    {Variant(p, x) : p \in SeqToSet(plist(ds)), x \in suffixes}

\* ds.where(ds['DATA_MODE'] == mode, drop=True)
where_data_mode(ds, mode) ==
    where_drop(ds, SortedSeq({k \in DOMAIN ds.index :
                                 ds.vars["DATA_MODE"].data[k] = S(<<mode>>)}))

\* drop_vars of those of the names that are in the dataset
drop_vars(ds, names) == keep_vars(ds, (DOMAIN ds.vars) \ names)

\* ds_split_datamode: one dataset for each data mode
ds_split_datamode(ds) ==
    [argo_r |-> drop_vars(where_data_mode(ds, "R"),
                          plist_variants(ds, {"adj", "adj_qc", "adj_err"})),
     argo_a |-> drop_vars(where_data_mode(ds, "A"),
                          plist_variants(ds, {"plain", "qc"})),
     argo_d |-> where_data_mode(ds, "D")]

\* fill_adjusted_nan: the adjusted values that are NaN take the plain ones
fill_adjusted_nan(ds, vname) ==
    [ds EXCEPT !.vars[Variant(vname, "adj")].data =
        [k \in DOMAIN ds.index |->
            IF isnan(ds.vars[Variant(vname, "adj")].data[k])
            THEN ds.vars[vname].data[k]
            ELSE ds.vars[Variant(vname, "adj")].data[k]]]

\* lines 245-246: fill_adjusted_nan for every quantity of the list ps
RECURSIVE fill_adjusted_all(_, _)
fill_adjusted_all(ds, ps) ==
    IF ps = <<>> THEN ds
    ELSE fill_adjusted_all(fill_adjusted_nan(ds, Head(ps)), Tail(ps))

\* lines 245-255: the delayed-mode dataset filled, its plain variables dropped
fill_and_drop(ds, argo_d) ==
    drop_vars(fill_adjusted_all(argo_d, plist(ds)),
              plist_variants(ds, {"plain", "qc"}))

\* the position of the label in the index of the dataset, 0 if it has none
label_pos(ds, lab) ==
    IF \E k \in DOMAIN ds.index : ds.index[k] = lab
    THEN CHOOSE k \in DOMAIN ds.index : ds.index[k] = lab
    ELSE 0

isnull(x) == Tag(x) \in {"nan", "nat"}

\* the missing value that reindexing puts in an array of the type
null_of(dtype) == IF dtype.kind = "M" THEN NaT ELSE NaN

\* xr.merge with no_conflicts at one label: the first value that is not
\* null among the arrays parts[i].ds[parts[i].v], null if there is none
RECURSIVE merged_value(_, _, _)
merged_value(parts, lab, null) ==
    IF parts = <<>> THEN null
    ELSE IF label_pos(parts[1].ds, lab) # 0
            /\ ~isnull(parts[1].ds.vars[parts[1].v].data[label_pos(parts[1].ds, lab)])
    THEN parts[1].ds.vars[parts[1].v].data[label_pos(parts[1].ds, lab)]
    ELSE merged_value(Tail(parts), lab, null)

\* xr.merge of arrays renamed to one name, over the labels given
merge_arrays(parts, labels) ==
    Var(<<"index">>, parts[1].ds.vars[parts[1].v].dtype,
        [k \in DOMAIN labels |->
            merged_value(parts, labels[k],
                         null_of(parts[1].ds.vars[parts[1].v].dtype))],
        parts[1].ds.vars[parts[1].v].attrs)

\* the names that new_arrays reads in the three datasets for vname
new_arrays_reads(vname, keep_error) ==
    [argo_r |-> {Variant(vname, "plain"), Variant(vname, "qc")},
     argo_a |-> {Variant(vname, "adj"), Variant(vname, "adj_qc")}
                   \cup (IF keep_error THEN {Variant(vname, "adj_err")} ELSE {}),
     argo_d |-> {Variant(vname, "adj"), Variant(vname, "adj_qc")}
                   \cup (IF keep_error THEN {Variant(vname, "adj_err")} ELSE {})]

\* the names of the variables that new_arrays makes for vname
new_arrays_names(vname, keep_error) ==
    {Variant(vname, "plain"), Variant(vname, "qc")}
        \cup (IF keep_error THEN {Variant(vname, "err")} ELSE {})

\* new_arrays: the variable name of the merged dataset for vname, over the
\* labels given
new_arrays(sp, vname, name, labels) ==
    IF name = Variant(vname, "plain")
    THEN merge_arrays(<<[ds |-> sp.argo_r, v |-> Variant(vname, "plain")],
                        [ds |-> sp.argo_a, v |-> Variant(vname, "adj")],
                        [ds |-> sp.argo_d, v |-> Variant(vname, "adj")]>>, labels)
    ELSE IF name = Variant(vname, "qc")
    THEN merge_arrays(<<[ds |-> sp.argo_r, v |-> Variant(vname, "qc")],
                        [ds |-> sp.argo_a, v |-> Variant(vname, "adj_qc")],
                        [ds |-> sp.argo_d, v |-> Variant(vname, "adj_qc")]>>, labels)
    ELSE merge_arrays(<<[ds |-> sp.argo_a, v |-> Variant(vname, "adj_err")],
                        [ds |-> sp.argo_d, v |-> Variant(vname, "adj_err")]>>, labels)

\* the quantities that lines 258-268 merge: DOXY when 'doxy' is in plist
merged_list(ds) ==
    {"TEMP", "PSAL", "PRES"}
        \cup (IF "doxy" \in SeqToSet(plist(ds)) THEN {"DOXY"} ELSE {})

\* the quantity whose new_arrays makes the variable name
quantity_of(name, keep_error) ==
    CHOOSE q \in Quantities : name \in new_arrays_names(q, keep_error)

\* other_variables: the data variables without ADJUSTED in their name that
\* the merged dataset has not
other_variables(ds, final_names) ==
    {v \in SeqToSet(ds.names) : v \notin names_with_ADJUSTED} \ final_names

\* an array of the dataset given, by label
by_label(ds, v, labels) ==
    [ds.vars[v] EXCEPT !.data =
        [k \in DOMAIN labels |->
            IF label_pos(ds, labels[k]) # 0
            THEN ds.vars[v].data[label_pos(ds, labels[k])]
            ELSE null_of(ds.vars[v].dtype)]]

\* lines 257-279: the merged dataset, sp being the three datasets,
\* final_names the names of the variables made by new_arrays, others the
\* other variables and labels the labels of the result
merge_final(ds, sp, keep_error, final_names, others, labels) ==
    [type |-> "point",
     dims |-> [d \in {"index"} |-> Len(labels)],
     index |-> labels,
     vars |-> [name \in final_names \cup others \cup ds.coords |->
                  IF name \in final_names
                  THEN new_arrays(sp, quantity_of(name, keep_error), name, labels)
                  ELSE by_label(ds, name, labels)],
     names |-> sort_names(final_names \cup others),
     coords |-> ds.coords,
     history |-> add_history(ds.history,
                             "Variables filtered according to DATA_MODE"),
     encoding |-> "none"]

\* the labels of the merged dataset: those of the three datasets, and those
\* of the dataset given when a variable of it is merged
final_labels(ds, sp, others) ==
    SortedSeq(SeqToSet(sp.argo_r.index) \cup SeqToSet(sp.argo_a.index)
                \cup SeqToSet(sp.argo_d.index)
                \cup (IF others = {} THEN {} ELSE SeqToSet(ds.index)))

\* lines 257-283, final_names being the names of the variables made
filter_merge(ds, sp, keep_error, final_names) ==
    merge_final(ds, sp, keep_error, final_names,
                other_variables(ds, final_names),
                final_labels(ds, sp, other_variables(ds, final_names)))

\* line 281, r being what cast_types gave
filter_end(ds, r) ==
    IF r.err # "none" THEN [err |-> r.err, ds |-> ds] ELSE r

\* lines 245-283, sp being the three datasets of ds_split_datamode
filter_split(ds, sp, keep_error) ==
    IF \E v \in SeqToSet(plist(ds)) : Variant(v, "adj") \notin DOMAIN sp.argo_d.vars
    THEN [err |-> "KeyError", ds |-> ds]
    ELSE IF \E v \in SeqToSet(plist(ds)) :
               sp.argo_d.vars[Variant(v, "adj")].dtype.kind \in {"O", "U"}
    THEN \* np.isnan is not defined on these
         [err |-> "TypeError", ds |-> ds]
    ELSE IF \E q \in {"PRES", "TEMP", "PSAL"}, m \in {"argo_r", "argo_a", "argo_d"} :
               ~(new_arrays_reads(q, keep_error)[m] \subseteq DOMAIN ds.vars)
    THEN [err |-> "KeyError", ds |-> ds]
    ELSE filter_end(ds,
             cast_types(filter_merge(ds,
                 [sp EXCEPT !.argo_d = fill_and_drop(ds, sp.argo_d)],
                 keep_error,
                 UNION {new_arrays_names(q, keep_error) : q \in merged_list(ds)})))

\* filter_data_mode: err the exception raised or "none", ds the dataset
\* returned
filter_data_mode(self, keep_error) ==
    IF "DATA_MODE" \notin DOMAIN self.vars
    THEN [err |-> "KeyError", ds |-> self]
    ELSE IF "index" \notin DOMAIN self.dims
    THEN \* the index asked for by fill_adjusted_nan or the variables asked
         \* for by new_arrays are not found
         [err |-> "KeyError", ds |-> self]
    ELSE filter_split(self, ds_split_datamode(self), keep_error)

----------------------------------------------------------------------------
(* The datasets given to the operations *)

Date(day, sec) == T(<<2020, 1, day, 0, 0, sec>>)

Casted == [casted |-> TRUE]

\* the profiles of the records given to the reshaper: platform, cycle and
\* direction
Keys == {<<1, 1, "A">>, <<1, 1, "D">>, <<1, 2, "A">>}

\* the time of a profile: one TIME for all its records; two profiles have
\* the same, and the order of the times is not that of the identifiers
TimeOf(key) == IF key = <<1, 1, "A">> THEN Date(1, 0) ELSE Date(2, 0)

PresValues == {NaN, F(10)}

ModeCycle == <<"R", "A", "D">>

\* a point dataset of Len(recs) records; recs[k] gives the profile and the
\* pressure of the k-th record, the other variables take a different value in
\* every record.  The dataset is normalized (as cast_types leaves it), but
\* for the quality flags PRES_QC when qc_text: they are then still texts.
ReshapeDataset(recs, qc_text) ==
    LET n == Len(recs)
        col(dtype, f(_), attrs) == Var(<<"index">>, dtype, [k \in 1..n |-> f(k)], attrs)
        wmo(k) == I(recs[k][1][1])
        cyc(k) == I(recs[k][1][2])
        drc(k) == S(<<recs[k][1][3]>>)
        mode(k) == S(<<ModeCycle[((k - 1) % 3) + 1]>>)
        pres(k) == recs[k][2]
        temp(k) == F(100 + k)
        qc(k) == IF qc_text THEN S(IntToChars(k)) ELSE I(k)
        juld(k) == Date(3, k)
        time(k) == TimeOf(recs[k][1])
    IN  [type |-> "point",
         dims |-> [index |-> n],
         index |-> [k \in 1..n |-> k - 1],
         vars |-> [PLATFORM_NUMBER |-> col(dtype_i, wmo, Casted),
                   CYCLE_NUMBER |-> col(dtype_i, cyc, Casted),
                   DIRECTION |-> col(dtype_U(1), drc, Casted),
                   DATA_MODE |-> col(dtype_U(1), mode, Casted),
                   PRES |-> col(dtype_f, pres, Casted),
                   TEMP |-> col(dtype_f, temp, Casted),
                   PRES_QC |-> IF qc_text THEN col(dtype_U(1), qc, NoAttrs)
                               ELSE col(dtype_i, qc, Casted),
                   JULD |-> col(dtype_M, juld, Casted),
                   TIME |-> col(dtype_M, time, NoAttrs)],
         names |-> <<"PLATFORM_NUMBER", "CYCLE_NUMBER", "DIRECTION", "DATA_MODE",
                     "PRES", "TEMP", "PRES_QC", "JULD">>,
         coords |-> {"TIME"},
         history |-> <<>>,
         encoding |-> "source"]

ReshapeInputs ==
    {ReshapeDataset(recs, qc_text) :
        recs \in UNION {[1..n -> Keys \X PresValues] : n \in 1..MaxRecs},
        qc_text \in BOOLEAN}

\* the values of the quantity q in the record k: plain, adjusted
PlainValue(q, k) ==
    F(10 * k + (CASE q = "PRES" -> 0 [] q = "TEMP" -> 100
                  [] q = "PSAL" -> 200 [] q = "DOXY" -> 300))

AdjustedValue(q, k) == F(Payload(PlainValue(q, k)) + 1)

\* a normalized point dataset of Len(recs) records with the variants of PRES,
\* TEMP, PSAL and, when has_doxy, DOXY; recs[k] gives the data mode of the
\* k-th record and tells whether its plain and its adjusted values are defined
FilterDataset(recs, has_doxy) ==
    LET n == Len(recs)
        qs == {"PRES", "TEMP", "PSAL"} \cup (IF has_doxy THEN {"DOXY"} ELSE {})
        col(dtype, f(_)) == Var(<<"index">>, dtype, [k \in 1..n |-> f(k)], Casted)
        mode(k) == S(<<recs[k][1]>>)
        value(name, k) ==
            LET q == CHOOSE x \in qs :
                        name \in {Variant(x, sfx) :
                                    sfx \in {"plain", "qc", "adj", "adj_qc", "adj_err"}}
            IN  IF name = Variant(q, "plain")
                THEN (IF recs[k][2] THEN PlainValue(q, k) ELSE NaN)
                ELSE IF name = Variant(q, "adj")
                THEN (IF recs[k][3] THEN AdjustedValue(q, k) ELSE NaN)
                ELSE IF name = Variant(q, "qc") THEN I(1)
                ELSE IF name = Variant(q, "adj_qc") THEN I(2)
                ELSE F(5)
        names == {Variant(q, sfx) :
                    q \in qs, sfx \in {"plain", "qc", "adj", "adj_qc", "adj_err"}}
    IN  [type |-> "point",
         dims |-> [index |-> n],
         index |-> [k \in 1..n |-> k - 1],
         vars |-> [name \in names \cup {"DATA_MODE"} |->
                     IF name = "DATA_MODE" THEN col(dtype_U(1), mode)
                     ELSE Var(<<"index">>,
                              IF is_qc_name(name) THEN dtype_i ELSE dtype_f,
                              [k \in 1..n |-> value(name, k)], Casted)],
         names |-> <<"DATA_MODE">> \o sort_names(names),
         coords |-> {},
         history |-> <<>>,
         encoding |-> "source"]

FilterInputs ==
    {FilterDataset(recs, has_doxy) :
        recs \in UNION {[1..n -> {"R", "A", "D"} \X BOOLEAN \X BOOLEAN] :
                           n \in 1..MaxFilterRecs},
        has_doxy \in BOOLEAN}

\* the variables of a multi-profile file that are neither (N_PROF,) nor
\* (N_PROF, N_LEVELS): without dimension, along the empty N_HISTORY, along
\* N_PARAM, with the two dimensions the other way round, along N_LEVELS only
ExtraNames == <<"DATA_TYPE", "HISTORY_DATE", "STATION_PARAMETERS", "TEMP", "PSAL">>

ExtraVariable(v, np, nl) ==
    IF v = "DATA_TYPE"
    THEN Var(<<>>, dtype_O, <<S(<<"A">>)>>, NoAttrs)
    ELSE IF v = "HISTORY_DATE"
    THEN Var(<<"N_HISTORY", "N_PROF">>, dtype_O, <<>>, NoAttrs)
    ELSE IF v = "STATION_PARAMETERS"
    THEN Var(<<"N_PROF", "N_PARAM">>, dtype_O, [i \in 1..np |-> S(<<"P">>)], NoAttrs)
    ELSE IF v = "TEMP"
    THEN Var(<<"N_LEVELS", "N_PROF">>, dtype_f, [c \in 1..(nl * np) |-> F(100 + c)],
             NoAttrs)
    ELSE Var(<<"N_LEVELS">>, dtype_f, [j \in 1..nl |-> F(200 + j)], NoAttrs)

\* a profile dataset as read from a multi-profile file: np profiles of nl
\* levels, the i-th one with its first depth[i] pressures defined, and the
\* variables of extras besides those along (N_PROF,) and (N_PROF, N_LEVELS)
ProfileDataset(np, nl, depth, extras) ==
    LET row(dtype, f(_)) == Var(<<"N_PROF">>, dtype, [i \in 1..np |-> f(i)], NoAttrs)
        wmo(i) == I(690024)
        cyc(i) == I(i)
        drc(i) == S(<<"A">>)
        time(i) == Date(3, np + 1 - i)
        base == [PLATFORM_NUMBER |-> row(dtype_i, wmo),
                 CYCLE_NUMBER |-> row(dtype_i, cyc),
                 DIRECTION |-> row(dtype_O, drc),
                 TIME |-> row(dtype_M, time),
                 PRES |->
                    Var(<<"N_PROF", "N_LEVELS">>, dtype_f,
                        [c \in 1..(np * nl) |->
                            IF ((c - 1) % nl) + 1 <= depth[((c - 1) \div nl) + 1]
                            THEN F(10 * c) ELSE NaN],
                        NoAttrs)]
    IN  [type |-> "profile",
         dims |-> [d \in {"N_PROF", "N_LEVELS"}
                          \cup (IF "HISTORY_DATE" \in extras THEN {"N_HISTORY"} ELSE {})
                          \cup (IF "STATION_PARAMETERS" \in extras THEN {"N_PARAM"} ELSE {})
                     |-> IF d = "N_PROF" THEN np
                         ELSE IF d = "N_LEVELS" THEN nl
                         ELSE IF d = "N_HISTORY" THEN 0 ELSE 1],
         index |-> <<>>,
         vars |-> [v \in (DOMAIN base) \cup extras |->
                     IF v \in DOMAIN base THEN base[v] ELSE ExtraVariable(v, np, nl)],
         names |-> <<"PLATFORM_NUMBER", "CYCLE_NUMBER", "DIRECTION", "TIME", "PRES">>
                   \o FilterSeq(ExtraNames, extras),
         coords |-> {},
         history |-> <<>>,
         encoding |-> "source"]

ProfileInputs ==
    UNION {{ProfileDataset(np, nl, depth, extras) :
               depth \in [1..np -> 0..nl], extras \in SUBSET SeqToSet(ExtraNames)} :
           np \in 1..MaxProfiles, nl \in 1..MaxProfiles}

\* the texts found in the quality flags of raw data
QcTexts ==
    {<<"1">>, <<" ">>, <<"A">>, <<"n", "a", "n">>, <<"n", "/", "a">>,
     <<" ", " ", " ">>}

\* the texts found in the packed dates of raw data
DateTexts ==
    {<<"2", "0", "2", "0", "0", "1", "0", "2", "0", "3", "0", "4", "0", "5">>,
     Blank14,
     <<"g", "a", "r", "b", "a", "g", "e">>}

Conventions == [conventions |-> "YYYYMMDDHHMISS"]

\* the columns of n texts: held as objects, or as texts of their width
TextColumns(texts, n, attrs) ==
    {Var(<<"index">>, dtype, [k \in 1..n |-> S(cs[k])], attrs) :
        cs \in [1..n -> texts], dtype \in {dtype_O}}
    \cup
    {Var(<<"index">>, dtype_U(TextWidth([k \in 1..n |-> S(cs[k])])),
         [k \in 1..n |-> S(cs[k])], attrs) :
        cs \in [1..n -> texts]}

\* the platform numbers of raw data: texts, numbers held as objects, texts
\* that are no numbers, integers
PlatformColumns(n) ==
    {Var(<<"index">>, dtype_O, [k \in 1..n |-> S(IntToChars(10 + k))], NoAttrs),
     Var(<<"index">>, dtype_O, [k \in 1..n |-> I(10 + k)], NoAttrs),
     Var(<<"index">>, dtype_O, [k \in 1..n |-> S(<<"1", "a">>)], NoAttrs),
     Var(<<"index">>, dtype_i, [k \in 1..n |-> I(10 + k)], NoAttrs)}

\* a raw point dataset of n records: the variable named subject is the
\* column given, the others are as the netCDF reader gives them
CastDataset(n, subject, column) ==
    LET raw == [PLATFORM_NUMBER |->
                    Var(<<"index">>, dtype_O,
                        [k \in 1..n |-> S(IntToChars(10 + k))], NoAttrs),
                DIRECTION |->
                    Var(<<"index">>, dtype_O, [k \in 1..n |-> S(<<"A">>)], NoAttrs),
                PRES |->
                    Var(<<"index">>, dtype_f, [k \in 1..n |-> F(10 * k)], NoAttrs),
                PRES_QC |->
                    Var(<<"index">>, dtype_O, [k \in 1..n |-> S(<<"1">>)], NoAttrs),
                JULD |->
                    Var(<<"index">>, dtype_O,
                        [k \in 1..n |-> S(<<"2", "0", "2", "0", "0", "1", "0", "2",
                                            "0", "3", "0", "4", "0", "5">>)],
                        Conventions)]
        names == <<"PLATFORM_NUMBER", "DIRECTION", "PRES", "PRES_QC", "JULD">>
    IN  [type |-> "point",
         dims |-> [index |-> n],
         index |-> [k \in 1..n |-> k - 1],
         vars |-> [v \in (DOMAIN raw) \cup {subject} |->
                     IF v = subject THEN column ELSE raw[v]],
         names |-> IF subject \in DOMAIN raw THEN names
                   ELSE Append(names, subject),
         coords |-> {},
         history |-> <<>>,
         encoding |-> "source"]

CastInputs ==
    UNION {
        {CastDataset(n, "PRES_QC", c) : c \in TextColumns(QcTexts, n, NoAttrs)}
        \cup {CastDataset(n, "PRES_QC",
                           Var(<<"index">>, dtype_i, [k \in 1..n |-> I(k)], NoAttrs))}
        \cup {CastDataset(n, "JULD", c) :
                 c \in TextColumns(DateTexts, n, Conventions)
                        \cup TextColumns(DateTexts, n, NoAttrs)}
        \cup {CastDataset(n, "JULD",
                           Var(<<"index">>, dtype_M, [k \in 1..n |-> Date(3, k)],
                               Conventions))}
        \cup {CastDataset(n, "SCIENTIFIC_CALIB_DATE", c) :
                 c \in TextColumns(DateTexts, n, NoAttrs)}
        \cup {CastDataset(n, "PLATFORM_NUMBER", c) : c \in PlatformColumns(n)}
        : n \in 1..MaxCastRecs}

----------------------------------------------------------------------------
(* The caller: it holds one dataset and applies the operations to it *)

NoCall ==
    [op |-> "none", err |-> "none", same |-> FALSE, prev |-> "none",
     shape |-> <<0, 0>>]

\* the call record: shape is (N_PROF, N_LEVELS) as point2profile computed them
CallRecord(op, err, same, shape) ==
    [op |-> op, err |-> err, same |-> same,
     prev |-> IF last.err = "none" THEN last.op ELSE "failed",
     shape |-> shape]

\* the caller holds one of the datasets inputs, and has called nothing
Init(inputs) ==
    /\ uid_pc = "idle"
    /\ uid_in = <<0, 0, NoDirection>>
    /\ uid_code = SignedBig(1, BigZero)
    /\ uid_out = [wmo |-> BigZero, cyc |-> BigZero, drc |-> "A"]
    /\ obj \in inputs
    /\ last = NoCall
    /\ before = obj
    /\ after = obj
    /\ origin = obj

\* A call made by the caller; an exception ends the caller, so calls are made
\* while none has raised.  r is what the operation gave; in_place tells that
\* the operation works on the dataset given and returns it.
Return(op, r, in_place, shape) ==
    /\ last' = CallRecord(op, r.err, in_place /\ r.err = "none", shape)
    /\ before' = obj
    /\ after' = IF in_place THEN r.ds ELSE obj
    /\ obj' = r.ds
    /\ origin' = before
    /\ UNCHANGED uid_vars

\* obj.argo.cast_types(): the dataset is cast in place and returned
CallCastTypes ==
    /\ last.err = "none"
    /\ Return("cast_types", cast_types(obj), TRUE, <<0, 0>>)

\* the shape that point2profile computed when it returned
profile_shape(ds, r) ==
    IF r.err = "none"
    THEN <<count_profiles(dummy_argo_uid(ds)), count_levels(dummy_argo_uid(ds))>>
    ELSE <<0, 0>>

Point2ProfileReturn(r) == Return("point2profile", r, FALSE, profile_shape(obj, r))

\* obj.argo.point2profile()
CallPoint2Profile ==
    /\ last.err = "none"
    /\ Len(obj.history) < MaxHistory
    /\ Point2ProfileReturn(point2profile(obj))

\* obj.argo.profile2point()
CallProfile2Point ==
    /\ last.err = "none"
    /\ Len(obj.history) < MaxHistory
    /\ \E major \in StackOrders :
         Return("profile2point", profile2point(obj, major), FALSE, <<0, 0>>)

\* obj.argo.filter_data_mode(keep_error=...)
CallFilterDataMode ==
    /\ last.err = "none"
    /\ Len(obj.history) < MaxHistory
    /\ \E keep_error \in BOOLEAN :
         Return("filter_data_mode", filter_data_mode(obj, keep_error), FALSE,
                <<0, 0>>)

CastNext == CallCastTypes

ProfileNext == CallProfile2Point

FilterNext == CallFilterDataMode

ReshapeNext == CallPoint2Profile \/ CallProfile2Point

Next ==
    \/ CallCastTypes
    \/ CallFilterDataMode
    \/ CallPoint2Profile
    \/ CallProfile2Point

Inputs == CastInputs \cup FilterInputs \cup ReshapeInputs

vars == <<uid_vars, ds_vars>>

SpecUid == Init({ReshapeDataset(<<>>, FALSE)}) /\ [][UidNext]_vars

Spec == Init(Inputs) /\ [][Next]_vars

SpecCast == Init(CastInputs) /\ [][CastNext]_vars

SpecProfile == Init(ProfileInputs) /\ [][ProfileNext]_vars

SpecFilter == Init(FilterInputs) /\ [][FilterNext]_vars

SpecReshape == Init(ReshapeInputs) /\ [][ReshapeNext]_vars

----------------------------------------------------------------------------
(* Claims about the codec *)

\* what the decoder returned, as machine integers
DecodedTriple == <<BigToInt(uid_out.wmo), BigToInt(uid_out.cyc), uid_out.drc>>

InCodecDomain ==
    /\ uid_in[1] \in 0..(offset - 1)
    /\ uid_in[2] \in 0..(offset - 1)
    /\ uid_in[3] \in Directions

\* C1: for every platform and cycle in [0, 10^5) and either direction,
\* platform 0 and cycle 0 included, decoding uid(platform, cycle, direction)
\* returns exactly (platform, cycle, direction).
C1_RoundTrip ==
    (uid_pc = "decoded" /\ InCodecDomain) =>
        /\ BigFits(uid_out.wmo) /\ BigFits(uid_out.cyc)
        /\ DecodedTriple = uid_in

InLargePlatformDomain ==
    /\ uid_in[1] >= offset
    /\ uid_in[2] \in 0..(offset - 1)
    /\ uid_in[3] \in Directions

\* C12: for every platform number of 10^5 or more (the seven-digit WMO
\* numbers, 690024 among them), every cycle in [0, 10^5) and either
\* direction, decoding uid(platform, cycle, direction) returns exactly
\* (platform, cycle, direction).
C12_RoundTripLargePlatform ==
    (uid_pc = "decoded" /\ InLargePlatformDomain) =>
        /\ BigFits(uid_out.wmo) /\ BigFits(uid_out.cyc)
        /\ DecodedTriple = uid_in

\* the example of the docstring has been encoded and decoded
C12_Witness ==
    /\ uid_pc = "decoded"
    /\ uid_in = <<690024, 13, "A">>
    /\ uid_code = uid_encode(690024, 13, "A")
    /\ DecodedTriple = <<690024, 13, "A">>

----------------------------------------------------------------------------
(* Claims about the reshaper *)

Returned(op) == last.op = op /\ last.err = "none"

\* an element compared by value: an integer, a float and the text of a
\* number are the same value when the number is the same
ValueOf(x) ==
    IF Tag(x) \in {"i", "f"} THEN <<"number", Payload(x)>>
    ELSE IF Tag(x) = "s" /\ py_int(x).ok THEN <<"number", Payload(py_int(x).val)>>
    ELSE x

KeyNames == {"PLATFORM_NUMBER", "CYCLE_NUMBER", "DIRECTION"}

\* the level-varying variables of a profile dataset
LevelVarying(ds) ==
    {v \in DOMAIN ds.vars : ds.vars[v].dims = <<"N_PROF", "N_LEVELS">>}

\* the k-th record of a point dataset, over the variables V
RecordTuple(ds, k, V) == [v \in V |-> ValueOf(ds.vars[v].data[k])]

\* the multiset of the records at the positions K of a point dataset
RecordBag(ds, K, V) ==
    LET tuples == {RecordTuple(ds, k, V) : k \in K}
    IN  [t \in tuples |-> Cardinality({k \in K : RecordTuple(ds, k, V) = t})]

\* the genuine records of a point dataset: those with a defined pressure
Genuine(ds) == {k \in DOMAIN ds.index : ~isnan(ds.vars["PRES"].data[k])}

\* the point dataset with its records in the order perm
PermuteRecords(ds, perm) ==
    [ds EXCEPT !.vars = [v \in DOMAIN ds.vars |->
                            [ds.vars[v] EXCEPT !.data = Select(ds.vars[v].data, perm)]]]

Perms(n) == {f \in [1..n -> 1..n] : \A i, j \in 1..n : f[i] = f[j] => i = j}

RoundTripDone == Returned("profile2point") /\ last.prev = "point2profile"

\* C3: point2profile then profile2point gives a point dataset whose multiset
\* of (platform, cycle, direction, level-varying values) tuples is that of
\* the genuine records given, and is the same for every order of the records.
C3_RoundTripMultiset ==
    RoundTripDone =>
        LET V == KeyNames \cup LevelVarying(before)
            result == RecordBag(obj, DOMAIN obj.index, V)
        IN  /\ V \subseteq DOMAIN obj.vars
            /\ result = RecordBag(origin, Genuine(origin), V)
            /\ \A perm \in Perms(Len(origin.index)), major \in StackOrders :
                 LET p == point2profile(PermuteRecords(origin, perm))
                     q == profile2point(p.ds, major)
                 IN  /\ p.err = "none" /\ q.err = "none"
                     /\ RecordBag(q.ds, DOMAIN q.ds.index, V) = result

\* the identifier of the k-th record of the dataset given to the last call
RecordUid(k) == dummy_argo_uid(before)[k]

GroupSize(k) ==
    Cardinality({j \in DOMAIN before.index : RecordUid(j) = RecordUid(k)})

\* C4: in point2profile N_PROF is the number of distinct identifiers of the
\* records, N_LEVELS the size of the largest group of one identifier, and
\* N_PROF * N_LEVELS is at least the number of records.
C4_ProfileGrid ==
    Returned("point2profile") =>
        LET n == Len(before.index)
            firsts == {k \in 1..n : \A j \in 1..(k - 1) : RecordUid(j) # RecordUid(k)}
        IN  /\ last.shape[1] = Cardinality(firsts)
            /\ \A k \in 1..n : GroupSize(k) <= last.shape[2]
            /\ \E k \in 1..n : GroupSize(k) = last.shape[2]
            /\ last.shape[1] * last.shape[2] >= n
            /\ obj.dims["N_PROF"] = last.shape[1]
            /\ \A v \in LevelVarying(obj) :
                 /\ obj.dims["N_LEVELS"] = last.shape[2]
                 /\ Len(obj.vars[v].data) = last.shape[1] * last.shape[2]

\* a call of point2profile that had to pad: groups of different sizes
C4_Witness ==
    /\ Returned("point2profile")
    /\ last.shape[1] >= 2
    /\ last.shape[1] * last.shape[2] > Len(before.index)

\* the row of the profile i of a level-varying variable
Row(ds, v, i) ==
    LET nl == ds.dims["N_LEVELS"]
    IN  [j \in 1..nl |-> ValueOf(ds.vars[v].data[(i - 1) * nl + j])]

\* the fill value the claim gives each type
DeclaredFill(kind) ==
    CASE kind = "U" -> S(<<" ">>)
      [] kind = "i" -> I(99999)
      [] kind = "M" -> NaT
      [] kind = "f" -> NaN
      [] OTHER -> <<"none", 0>>

\* the values of v in the records of identifier u, in order of arrival,
\* then the fill of the type up to the width nl
PaddedGroup(v, u, nl) ==
    LET ks == SortedSeq({k \in DOMAIN before.index : RecordUid(k) = u})
    IN  [j \in 1..nl |->
            IF j <= Len(ks) THEN ValueOf(before.vars[v].data[ks[j]])
            ELSE ValueOf(DeclaredFill(obj.vars[v].dtype.kind))]

\* the rows of the result are the groups, one row for each, padded
RowsArePaddedGroups(V) ==
    LET uids == {RecordUid(k) : k \in DOMAIN before.index}
        np == obj.dims["N_PROF"]
    IN  \E g \in [1..np -> uids] :
            /\ \A i, j \in 1..np : g[i] = g[j] => i = j
            /\ \A i \in 1..np, v \in V :
                 Row(obj, v, i) = PaddedGroup(v, g[i], obj.dims["N_LEVELS"])

\* C5 as claimed: in the result of point2profile every row of every
\* level-varying variable holds the values of its group in order of arrival,
\* then the fill value of the variable's type (space, 99999, not-a-time, NaN).
C5_PaddedRows ==
    Returned("point2profile") => RowsArePaddedGroups(LevelVarying(obj))

\* the variables the cast_types pass that ends point2profile does not cast
\* again: all but the quality flags and the integer variables that are not
\* integers yet
NotRecast(ds) ==
    {v \in DOMAIN ds.vars :
        (is_qc_name(v) \/ v \in list_int) => ds.vars[v].dtype.kind = "i"}

\* C5 as amended: in the result of point2profile every row of every
\* level-varying variable that the final cast_types pass does not cast again
\* holds the values of its group in order of arrival, then the fill value of
\* the variable's type (space, 99999, not-a-time, NaN).
C5_PaddedRowsNotRecast ==
    Returned("point2profile") =>
        RowsArePaddedGroups(LevelVarying(obj) \cap NotRecast(before))

\* a result with padded rows of a text, an integer, a timestamp and a float
\* variable that are not cast again
C5_Witness ==
    /\ Returned("point2profile")
    /\ last.shape[1] * last.shape[2] > Len(before.index)
    /\ \A kind \in {"U", "i", "M", "f"} :
         \E v \in LevelVarying(obj) \cap NotRecast(before) :
            obj.vars[v].dtype.kind = kind

\* the cells of a profile dataset: profile i, level j
Cells(ds) == (1..ds.dims["N_PROF"]) \X (1..ds.dims["N_LEVELS"])

\* the value of the variable v in a cell (a profile-scalar one is broadcast)
CellValue(ds, v, c) ==
    IF ds.vars[v].dims = <<"N_PROF">> THEN ds.vars[v].data[c[1]]
    ELSE ds.vars[v].data[(c[1] - 1) * ds.dims["N_LEVELS"] + c[2]]

CellTuple(ds, c, V) == [v \in V |-> ValueOf(CellValue(ds, v, c))]

DefinedCells(ds) == {c \in Cells(ds) : ~isnan(CellValue(ds, "PRES", c))}

\* C6: the result of profile2point has no record with an undefined PRES;
\* the cells with an undefined PRES are removed, the others are all kept.
C6_NoUndefinedPressure ==
    Returned("profile2point") =>
        LET V == DOMAIN obj.vars
            K == DefinedCells(before)
            kept == {CellTuple(before, c, V) : c \in K}
        IN  /\ \A k \in DOMAIN obj.index : ~isnan(obj.vars["PRES"].data[k])
            /\ Len(obj.index) = Cardinality(K)
            /\ RecordBag(obj, DOMAIN obj.index, V) =
                   [t \in kept |-> Cardinality({c \in K : CellTuple(before, c, V) = t})]

\* a call of profile2point that removed padding and kept records
C6_Witness ==
    /\ Returned("profile2point")
    /\ Len(obj.index) >= 2
    /\ Cardinality(Cells(before)) > Len(obj.index)

\* C7: point2profile returns only for a point dataset and its result is a
\* profile dataset, profile2point only for a profile dataset and its result
\* is a point dataset; on the other mode each raises the structural error
\* and gives no dataset; the mode is always point or profile, that of the
\* last reshape that returned.
C7_TwoModes ==
    /\ obj.type \in {"point", "profile"}
    /\ Returned("point2profile") => (before.type = "point" /\ obj.type = "profile")
    /\ Returned("profile2point") => (before.type = "profile" /\ obj.type = "point")
    /\ (last.op = "point2profile" /\ before.type # "point") =>
            (last.err = "InvalidDatasetStructure" /\ obj = before)
    /\ (last.op = "profile2point" /\ before.type # "profile") =>
            (last.err = "InvalidDatasetStructure" /\ obj = before)
    /\ obj.type = accessor_type(obj.dims)

\* back in point mode after the two transitions
C7_Witness ==
    /\ RoundTripDone
    /\ obj.type = "point"
    /\ before.type = "profile"

----------------------------------------------------------------------------
(* Claims about the filter *)

\* the value of the variable v of the dataset in the record of the label
AtLabel(ds, v, lab) == ds.vars[v].data[label_pos(ds, lab)]

\* the value the reconciliation gives the quantity q in the record k of the
\* dataset given: plain in mode R, adjusted in mode A, and in mode D the
\* adjusted value if it is defined, the plain one otherwise
Reconciled(ds, q, k) ==
    LET mode == ds.vars["DATA_MODE"].data[k]
        plain == ds.vars[q].data[k]
        adjusted == ds.vars[Variant(q, "adj")].data[k]
    IN  IF mode = S(<<"R">>) THEN plain
        ELSE IF mode = S(<<"A">>) THEN adjusted
        ELSE IF isnan(adjusted) THEN plain ELSE adjusted

\* the quantity q of the result is the reconciliation of the one given
IsReconciled(q) ==
    /\ q \in DOMAIN obj.vars
    /\ \A k \in DOMAIN before.index :
         /\ label_pos(obj, before.index[k]) # 0
         /\ ValueOf(AtLabel(obj, q, before.index[k]))
                = ValueOf(Reconciled(before, q, k))

\* C2: in the result of filter_data_mode, for every quantity among PRES,
\* TEMP, PSAL and DOXY that the dataset given has, and every record, the
\* value is the plain one in mode R, the adjusted one in mode A, and in mode
\* D the adjusted one if it is defined, else the plain one.
C2_Reconciled ==
    Returned("filter_data_mode") =>
        \A q \in Quantities \cap DOMAIN before.vars : IsReconciled(q)

----------------------------------------------------------------------------
(* Claims about cast_types *)

CastedFlag(da) == HasAttr(da.attrs, "casted") /\ da.attrs["casted"]

\* the variable has the type and the values it had before the last call
LeftAsItWas(v) ==
    /\ obj.vars[v].dtype = before.vars[v].dtype
    /\ obj.vars[v].data = before.vars[v].data

\* C8: cast_types never aborts because one variable cannot be cast or
\* parsed, an unparseable packed date included: it returns, with every
\* variable either cast or left with the type and the values it had.
C8_NeverAborts ==
    last.op = "cast_types" =>
        /\ last.err = "none"
        /\ \A v \in DOMAIN obj.vars : CastedFlag(obj.vars[v]) \/ LeftAsItWas(v)

SecondCast == Returned("cast_types") /\ last.prev = "cast_types"

\* C9: cast_types applied to the result of cast_types changes no variable's
\* element type, value or casted flag.
C9_Idempotent ==
    SecondCast =>
        /\ DOMAIN obj.vars = DOMAIN before.vars
        /\ \A v \in DOMAIN obj.vars :
             /\ LeftAsItWas(v)
             /\ CastedFlag(obj.vars[v]) = CastedFlag(before.vars[v])

\* a second pass over a dataset whose flags the first pass had to clean
C9_Witness ==
    /\ SecondCast
    /\ origin.vars["PRES_QC"].dtype.kind \in {"O", "U"}
    /\ obj.vars["PRES_QC"].dtype.kind = "i"
    /\ origin.vars["PRES_QC"].data[1] = S(<<"n", "/", "a">>)

----------------------------------------------------------------------------
(* Claims about every transformation *)

Transformations == {"cast_types", "filter_data_mode", "point2profile", "profile2point"}

\* C10: when a transformation returns, the dataset it was given is as it was
\* before the call (variables, element types, metadata of the variables with
\* the casted flag, global metadata, history), and the result is another
\* dataset than the one given.
C10_InputUntouched ==
    (last.op \in Transformations /\ last.err = "none") =>
        /\ after = before
        /\ ~last.same

----------------------------------------------------------------------------
(* Claims about the errors of filter_data_mode *)

\* the last call was filter_data_mode on a dataset without DATA_MODE
FilteredWithoutDataMode ==
    /\ last.op = "filter_data_mode"
    /\ "DATA_MODE" \notin DOMAIN before.vars

\* C11: filter_data_mode given a dataset without the variable DATA_MODE
\* raises InvalidDatasetStructure, the error of a dataset that has neither
\* an index nor an N_PROF dimension, and no other kind of failure.
C11_StructuralError ==
    FilteredWithoutDataMode => last.err = accessor_type(<<>>)

----------------------------------------------------------------------------
(* Claims about the variables that profile2point keeps *)

\* a dimension of the variable v of the dataset has length zero
HasEmptyDimension(ds, v) ==
    \E p \in DOMAIN ds.vars[v].dims : ds.dims[ds.vars[v].dims[p]] = 0

\* profile2point returned, and every data variable of the dataset given is
\* in the dataset returned exactly when none of its dimensions has length
\* zero and its dimensions are one of signatures
KeptExactly(signatures) ==
    Returned("profile2point") =>
        \A v \in SeqToSet(before.names) :
            (v \in DOMAIN obj.vars)
                <=> (~HasEmptyDimension(before, v)
                     /\ before.vars[v].dims \in signatures)

\* C13 as stated: a variable of the profile dataset is in the point dataset
\* returned if and only if none of its dimensions has length zero and its
\* dimensions are exactly (), (N_PROF,) or (N_PROF, N_LEVELS).
C13_Retention == KeptExactly({<<>>, <<"N_PROF">>, <<"N_PROF", "N_LEVELS">>})

\* C13 amended: a data variable of the profile dataset is in the point
\* dataset returned if and only if none of its dimensions has length zero
\* and its dimensions are exactly (N_PROF,) or (N_PROF, N_LEVELS); a
\* variable without dimension is dropped.
C13_RetentionNoScalar == KeptExactly({<<"N_PROF">>, <<"N_PROF", "N_LEVELS">>})

\* a dataset with every kind of variable has been converted
C13_Witness ==
    /\ Returned("profile2point")
    /\ SeqToSet(ExtraNames) \subseteq DOMAIN before.vars
    /\ before.vars["DATA_TYPE"].dims = <<>>
    /\ before.dims["N_HISTORY"] = 0
    /\ SeqToSet(ExtraNames) \cap DOMAIN obj.vars = {}
    /\ {"PRES", "TIME", "PLATFORM_NUMBER"} \subseteq DOMAIN obj.vars
    /\ obj.dims["index"] > 0

====
